---- MODULE Spec2Model ----
(***************************************************************************)
(* A model of the michelangelo mesh library: the Mesh container and its    *)
(* concatenation operators (mesh.rs), strip triangulation, SkeletonSpine   *)
(* construction and Sculpture::to_mesh (sculpt.rs), and the MeshGrouper    *)
(* (mesh_grouper.rs).                                                      *)
(*                                                                         *)
(* Each part of the library has its own specification (SpecStrip,          *)
(* SpecMesh, SpecSpine, SpecSculpt, SpecGrouper) over the same variables;  *)
(* the parts a specification does not drive stay in their initial state.   *)
(***************************************************************************)
EXTENDS Integers, Sequences, FiniteSets, TLC

VARIABLES
    overflow_checks,  \* build profile: TRUE = arithmetic overflow panics (debug),
                      \* FALSE = it wraps (release)
    strip_in,         \* arguments of the last strip_indices call
    strip_out,        \* its outcome
    mesh_call,        \* the last Mesh concatenation: operator and operands
    mesh_out,         \* its outcome
    spine_call,       \* arguments of the last SkeletonSpine::new call
    spine_out,        \* its outcome
    sculpture,        \* Sculpture.0: the surfaces, in insertion order
    last_op,          \* the last operation on the sculpture and the list before it
    to_mesh_out,      \* outcome of the last to_mesh since the list changed
    to_mesh_prev,     \* outcome of the to_mesh before that one
    grouper,          \* the MeshGrouper: groups, group_membership, budget
    update_call,      \* arguments of the last MeshGrouper::update
    update_out        \* its outcome: the GroupChanges it returns

vars == <<overflow_checks, strip_in, strip_out, mesh_call, mesh_out,
          spine_call, spine_out, sculpture, last_op, to_mesh_out, to_mesh_prev,
          grouper, update_call, update_out>>

(***************************************************************************)
(* Machine integers.  Indices are u16 (Mesh::indices: CVec<u16>).  An      *)
(* `as u16` cast truncates silently; +, - on u16/usize panic when overflow *)
(* checks are on and wrap when they are off.  A wrapped usize cast to u16  *)
(* equals the mathematical value modulo 2^16.                              *)
(***************************************************************************)
U16 == 65536

AsU16(n) == n % U16

Min(a, b) == IF a <= b THEN a ELSE b

Max(a, b) == IF a >= b THEN a ELSE b

(***************************************************************************)
(* Bounds of the strip_indices inputs.                                     *)
(***************************************************************************)
MaxLen == 4

\* Outcome of a call that may panic; Pending before the call is made.
Pending == [called |-> FALSE, panic |-> FALSE, val |-> <<>>]

Panicked == [called |-> TRUE, panic |-> TRUE, val |-> <<>>]

Returned(v) == [called |-> TRUE, panic |-> FALSE, val |-> v]

RECURSIVE Flatten(_)
Flatten(ss) == IF ss = <<>> THEN <<>> ELSE Head(ss) \o Flatten(Tail(ss))

(***************************************************************************)
(* strip_indices, sculpt.rs 213-245.                                       *)
(* One step of the forward branch (lines 231-242): the six indices, with   *)
(* wrapping arithmetic, and whether any +/- of the step overflows.         *)
(***************************************************************************)
\* The forward step without the clamp of the right index.
ForwardStepUnclamped(i, left_start_i, right_start_i, right_len) ==
    LET left_i  == AsU16(i + left_start_i)
        right_i == AsU16(i + right_start_i)
    IN  << left_i,
           right_i,
           AsU16(left_i + 1),
           AsU16(left_i + 1),
           right_i,
           AsU16(right_i + 1) >>

\* The forward step with the second triangle's last two corners exchanged.
ForwardStepSwapped(i, left_start_i, right_start_i, right_len) ==
    LET left_i  == AsU16(i + left_start_i)
        right_i == AsU16(i + right_start_i)
        last    == AsU16(AsU16(right_start_i + right_len) - 1)
    IN  << left_i,
           Min(right_i, last),
           AsU16(left_i + 1),
           AsU16(left_i + 1),
           Min(AsU16(right_i + 1), last),
           Min(right_i, last) >>

ForwardStep(i, left_start_i, right_start_i, right_len) ==
    LET left_i  == AsU16(i + left_start_i)
        right_i == AsU16(i + right_start_i)
        last    == AsU16(AsU16(right_start_i + right_len) - 1)
    IN  << left_i,
           Min(right_i, last),
           AsU16(left_i + 1),
           AsU16(left_i + 1),
           Min(right_i, last),
           Min(AsU16(right_i + 1), last) >>

ForwardOverflows(i, left_start_i, right_start_i, right_len) ==
    \/ AsU16(i + left_start_i) + 1 >= U16
    \/ AsU16(i + right_start_i) + 1 >= U16
    \/ AsU16(right_start_i + right_len) - 1 < 0

(***************************************************************************)
(* One step of the reverse_right branch (lines 216-227).                   *)
(***************************************************************************)
ReverseStep(i, left_start_i, right_start_i, right_len) ==
    LET left_i  == AsU16(i + left_start_i)
        right_i == AsU16(right_start_i + right_len - 1 - i)
        first   == AsU16(right_start_i)
    IN  << left_i,
           Max(right_i, first),
           AsU16(left_i + 1),
           AsU16(left_i + 1),
           Max(right_i, first),
           Max(AsU16(right_i + 1), first) >>

ReverseOverflows(i, left_start_i, right_start_i, right_len) ==
    \/ AsU16(i + left_start_i) + 1 >= U16
    \/ right_start_i + right_len - 1 - i < 0
    \/ AsU16(right_start_i + right_len - 1 - i) + 1 >= U16

\* left_len >= 1 (a LinePath holds at least two points); with left_len = 0 the
\* usize subtraction left_len - 1 itself overflows.
strip_indices(left_start_i, left_len, right_start_i, right_len, reverse_right, checks) ==
    IF left_len = 0 THEN Panicked
    ELSE IF reverse_right
    THEN IF checks /\ \E i \in 0..(left_len - 2) :
                         ReverseOverflows(i, left_start_i, right_start_i, right_len)
         THEN Panicked
         ELSE Returned(Flatten([k \in 1..(left_len - 1) |->
                  ReverseStep(k - 1, left_start_i, right_start_i, right_len)]))
    ELSE IF checks /\ \E i \in 0..(left_len - 2) :
                         ForwardOverflows(i, left_start_i, right_start_i, right_len)
         THEN Panicked
         ELSE Returned(Flatten([k \in 1..(left_len - 1) |->
                  ForwardStep(k - 1, left_start_i, right_start_i, right_len)]))


(***************************************************************************)
(* Point and vertex sequences.  A P2 is <<x, y>>, a Vertex is its position *)
(* <<x, y, z>> (mesh.rs 9-12).  A sequence of points or vertices is        *)
(* written as a sequence of runs: the run [v |-> p, n |-> k, d |-> s]      *)
(* stands for the k elements p, p + (s,0), ..., p + ((k-1)s,0) (s = 1 or   *)
(* -1), so that sequences of 2^16 and more elements can be written down.   *)
(* One element is a run of one.                                            *)
(***************************************************************************)
Run(v, k) == IF k = 0 THEN <<>> ELSE << [v |-> v, n |-> k, d |-> 1] >>

One(v) == [v |-> v, n |-> 1, d |-> 1]

AtRun(r, i) == [r.v EXCEPT ![1] = r.v[1] + r.d * i]

\* .len()
RECURSIVE RLen(_)
RLen(runs) == IF runs = <<>> THEN 0 ELSE Head(runs).n + RLen(Tail(runs))

\* runs[i], from 0, for i < RLen(runs)
RECURSIVE RAt(_, _)
RAt(runs, i) ==
    IF i < Head(runs).n THEN AtRun(Head(runs), i)
    ELSE RAt(Tail(runs), i - Head(runs).n)

RFirst(runs) == Head(runs).v

RLast(runs) == AtRun(runs[Len(runs)], runs[Len(runs)].n - 1)

\* runs[1..]
RDropFirst(runs) ==
    IF Head(runs).n = 1 THEN Tail(runs)
    ELSE << [Head(runs) EXCEPT !.v = AtRun(Head(runs), 1), !.n = @ - 1] >> \o Tail(runs)

\* runs[..len-1]
RDropLast(runs) ==
    LET k == Len(runs)
    IN  IF runs[k].n = 1 THEN SubSeq(runs, 1, k - 1)
        ELSE SubSeq(runs, 1, k - 1) \o << [runs[k] EXCEPT !.n = @ - 1] >>

\* .iter().rev()
RReverse(runs) ==
    [k \in 1..Len(runs) |->
        LET r == runs[Len(runs) + 1 - k]
        IN  [v |-> AtRun(r, r.n - 1), n |-> r.n, d |-> -r.d]]

\* The elements one by one (for short sequences).
Expand(runs) == [i \in 1..RLen(runs) |-> RAt(runs, i - 1)]

(***************************************************************************)
(* Mesh, mesh.rs 31-122.                                                   *)
(***************************************************************************)
MeshNew(vertices, indices) == [vertices |-> vertices, indices |-> indices]

EmptyMesh == [vertices |-> <<>>, indices |-> <<>>]

\* `index + self_n_vertices as u16` for every index of rhs: the cast truncates,
\* the u16 addition overflows when the sum reaches 2^16.
ShiftOverflows(self, rhs) ==
    \E p \in 1..Len(rhs.indices) :
        rhs.indices[p] + AsU16(RLen(self.vertices)) >= U16

ShiftedIndices(self, rhs) ==
    [p \in 1..Len(rhs.indices) |->
        AsU16(rhs.indices[p] + AsU16(RLen(self.vertices)))]

\* impl Add for Mesh, mesh.rs 62-72.
MeshAdd(self, rhs, checks) ==
    IF checks /\ ShiftOverflows(self, rhs) THEN Panicked
    ELSE Returned([vertices |-> self.vertices \o rhs.vertices,
                   indices  |-> self.indices \o ShiftedIndices(self, rhs)])

\* impl AddAssign for Mesh, mesh.rs 74-84.
MeshAddAssign(self, rhs, checks) ==
    IF checks /\ ShiftOverflows(self, rhs) THEN Panicked
    ELSE Returned([vertices |-> self.vertices \o rhs.vertices,
                   indices  |-> self.indices \o ShiftedIndices(self, rhs)])

\* impl AddAssign<&Mesh> for Mesh, mesh.rs 99-109.
MeshAddAssignRef(self, rhs, checks) ==
    IF checks /\ ShiftOverflows(self, rhs) THEN Panicked
    ELSE Returned([vertices |-> self.vertices \o rhs.vertices,
                   indices  |-> self.indices \o ShiftedIndices(self, rhs)])

\* impl Sum for Mesh, mesh.rs 86-97: summed_mesh += mesh for each mesh in turn.
RECURSIVE SumFrom(_, _, _)
SumFrom(summed_mesh, meshes, checks) ==
    IF meshes = <<>> THEN Returned(summed_mesh)
    ELSE LET step == MeshAddAssign(summed_mesh, Head(meshes), checks)
         IN  IF step.panic THEN Panicked
             ELSE SumFrom(step.val, Tail(meshes), checks)

MeshSum(meshes, checks) == SumFrom(EmptyMesh, meshes, checks)

\* impl Sum<&Mesh> for Mesh, mesh.rs 111-122.
RECURSIVE SumRefFrom(_, _, _)
SumRefFrom(summed_mesh, meshes, checks) ==
    IF meshes = <<>> THEN Returned(summed_mesh)
    ELSE LET step == MeshAddAssignRef(summed_mesh, Head(meshes), checks)
         IN  IF step.panic THEN Panicked
             ELSE SumRefFrom(step.val, Tail(meshes), checks)

MeshSumRef(meshes, checks) == SumRefFrom(EmptyMesh, meshes, checks)

(***************************************************************************)
(* The path algebra of the descartes crate and the fill engine of lyon, as *)
(* sculpt.rs calls them.  The paths of the model are straight and run      *)
(* parallel to the x axis, in either direction.  An operation that may     *)
(* yield no result takes a flag saying that the library finds the geometry *)
(* degenerate.                                                             *)
(***************************************************************************)
None == [some |-> FALSE]

Some(x) == [some |-> TRUE, val |-> x]

LinePath(points) == [points |-> points]

HasRepeatedPoint(points) ==
    \E k \in 1..(Len(points) - 1) : RLast(<< points[k] >>) = points[k + 1].v

\* LinePath::new: no path from fewer than two points or from coinciding
\* neighbours (a zero-length segment).
LinePath_new(points, degenerate) ==
    IF degenerate \/ RLen(points) < 2 \/ HasRepeatedPoint(points) THEN None
    ELSE Some(LinePath(points))

\* 1 when the path runs towards +x, -1 when towards -x
PathSign(path) ==
    IF RLast(path.points)[1] >= RFirst(path.points)[1] THEN 1 ELSE -1

\* LinePath::shift_orthogonally: every point moved by shift_to_right to the
\* right of the direction of travel.
shift_orthogonally(path, shift_to_right, degenerate) ==
    IF degenerate THEN None
    ELSE Some(LinePath([k \in 1..Len(path.points) |->
             [path.points[k] EXCEPT !.v[2] = @ - shift_to_right * PathSign(path)]]))

\* LinePath::reverse
reverse(path) == LinePath(RReverse(path.points))

\* LinePath::concat: self followed by other without other's first point; an
\* error unless other starts where self ends.
concat(self, other, degenerate) ==
    IF degenerate \/ RLast(self.points) # RFirst(other.points) THEN None
    ELSE Some(LinePath(self.points \o RDropFirst(other.points)))

\* LinePath::length
length(path) ==
    LET dx == RLast(path.points)[1] - RFirst(path.points)[1]
    IN  IF dx >= 0 THEN dx ELSE -dx

\* LinePath::along: the point at the given arc length from the start.
along(path, distance) ==
    LET t == Max(0, Min(distance, length(path)))
    IN  [RFirst(path.points) EXCEPT ![1] = @ + t * PathSign(path)]

\* impl GeometryBuilder<FillVertex> for Mesh, mesh.rs 140-146 and 147-151.
Mesh_add_vertex(self, position) ==
    [self EXCEPT !.vertices = Append(@, One(<< position[1], position[2], 0 >>))]

Mesh_add_triangle(self, a, b, c) ==
    [self EXCEPT !.indices = @ \o << AsU16(a), AsU16(b), AsU16(c) >>]

RECURSIVE AddVertices(_, _)
AddVertices(output, positions) ==
    IF positions = <<>> THEN output
    ELSE AddVertices(Mesh_add_vertex(output, Head(positions)), Tail(positions))

RECURSIVE AddFan(_, _, _)
AddFan(output, k, n) ==
    IF k + 1 >= n THEN output
    ELSE AddFan(Mesh_add_triangle(output, 0, k, k + 1), k + 1, n)

\* FillTessellator::tessellate_path into a Mesh: the polygon through the given
\* points (closed implicitly, a repeated closing point dropped) is reported as
\* one vertex per corner and a triangle fan; fewer than three corners give
\* nothing.
tessellate_path(points, output) ==
    LET pts  == Expand(points)
        ring == IF Len(pts) >= 2 /\ pts[1] = pts[Len(pts)]
                THEN SubSeq(pts, 1, Len(pts) - 1) ELSE pts
    IN  IF Len(ring) < 3 THEN output
        ELSE AddFan(AddVertices(output, ring), 1, Len(ring))

(***************************************************************************)
(* SculptLine, surfaces and SkeletonSpine, sculpt.rs 9-203.                *)
(***************************************************************************)
SculptLine_new(path, z) == [path |-> path, z |-> z]

SpannedSurface_new(left_line, right_line) ==
    [kind |-> "Spanned", left_line |-> left_line, right_line |-> right_line]

FlatSurface(boundary) == [kind |-> "Flat", boundary |-> boundary]

\* The steps of SkeletonSpine::new that may yield no result.
SpineSteps == {"left", "right", "back", "front", "concat_front", "concat_right",
               "concat_back"}

\* SkeletonSpine::new with the two points of each connector exchanged.
SkeletonSpineNewConnectorsTurned(center, width, degenerate) ==
    LET l == shift_orthogonally(center.path, -(width \div 2), "left" \in degenerate)
        r == shift_orthogonally(center.path, width \div 2, "right" \in degenerate)
    IN  IF ~l.some \/ ~r.some THEN None
        ELSE
        LET left  == l.val
            right == reverse(r.val)
            b == LinePath_new(<< One(RFirst(left.points)), One(RLast(right.points)) >>,
                              "back" \in degenerate)
            f == LinePath_new(<< One(RFirst(right.points)), One(RLast(left.points)) >>,
                              "front" \in degenerate)
        IN  IF ~b.some \/ ~f.some THEN None
            ELSE
            LET c1 == concat(left, f.val, "concat_front" \in degenerate)
                c2 == IF c1.some
                      THEN concat(c1.val, right, "concat_right" \in degenerate)
                      ELSE None
                c3 == IF c2.some
                      THEN concat(c2.val, b.val, "concat_back" \in degenerate)
                      ELSE None
            IN  IF ~c3.some THEN None
                ELSE Some([width    |-> width,
                           boundary |-> SculptLine_new(c3.val, center.z),
                           left     |-> SculptLine_new(left, center.z),
                           front    |-> SculptLine_new(f.val, center.z),
                           right    |-> SculptLine_new(right, center.z),
                           back     |-> SculptLine_new(b.val, center.z),
                           center   |-> center])

\* SkeletonSpine::new, sculpt.rs 106-127.  degenerate: the steps at which the
\* path algebra finds the geometry degenerate.  width is a whole even number.
SkeletonSpine_new(center, width, degenerate) ==
    LET l == shift_orthogonally(center.path, -(width \div 2), "left" \in degenerate)
        r == shift_orthogonally(center.path, width \div 2, "right" \in degenerate)
    IN  IF ~l.some \/ ~r.some THEN None
        ELSE
        LET left  == l.val
            right == reverse(r.val)
            b == LinePath_new(<< One(RLast(right.points)), One(RFirst(left.points)) >>,
                              "back" \in degenerate)
            f == LinePath_new(<< One(RLast(left.points)), One(RFirst(right.points)) >>,
                              "front" \in degenerate)
        IN  IF ~b.some \/ ~f.some THEN None
            ELSE
            LET back  == b.val
                front == f.val
                c1 == concat(left, front, "concat_front" \in degenerate)
                c2 == IF c1.some
                      THEN concat(c1.val, right, "concat_right" \in degenerate)
                      ELSE None
                c3 == IF c2.some
                      THEN concat(c2.val, back, "concat_back" \in degenerate)
                      ELSE None
            IN  IF ~c3.some THEN None
                ELSE Some([width    |-> width,
                           boundary |-> SculptLine_new(c3.val, center.z),
                           left     |-> SculptLine_new(left, center.z),
                           front    |-> SculptLine_new(front, center.z),
                           right    |-> SculptLine_new(right, center.z),
                           back     |-> SculptLine_new(back, center.z),
                           center   |-> center])

\* SkeletonSpine::roof, sculpt.rs 149-151: the two surfaces it pairs.
RoofSurface(spine, height, gable_depth_front, gable_depth_back) ==
    [kind |-> "Roof", spine |-> spine, height |-> height,
     gable_depth_front |-> gable_depth_front, gable_depth_back |-> gable_depth_back]

GableSurface(spine, height, gable_depth_front, gable_depth_back) ==
    [kind |-> "Gable", spine |-> spine, height |-> height,
     gable_depth_front |-> gable_depth_front, gable_depth_back |-> gable_depth_back]

\* SkeletonSpine::to_flat_surface, sculpt.rs 153-157.
to_flat_surface(spine) == FlatSurface(spine.boundary)

(***************************************************************************)
(* Sculpture, sculpt.rs 205-367.                                           *)
(***************************************************************************)
to_vertex(point, z) == << point[1], point[2], z >>

\* points.iter().map(|p| to_vertex(p, z))
ToVertices(points, z) ==
    [k \in 1..Len(points) |-> [points[k] EXCEPT !.v = to_vertex(@, z)]]

\* Surface::Spanned, sculpt.rs 261-295: the mesh of the surface.
SpannedMesh(spanned_surface, checks) ==
    LET left_points  == spanned_surface.left_line.path.points
        right_points == spanned_surface.right_line.path.points
        vertices == ToVertices(left_points, spanned_surface.left_line.z)
                        \o ToVertices(right_points, spanned_surface.right_line.z)
        indices  == strip_indices(0, RLen(left_points), RLen(left_points),
                                  RLen(right_points), FALSE, checks)
    IN  IF indices.panic THEN Panicked
        ELSE Returned(MeshNew(vertices, indices.val))

\* Surface::Flat, sculpt.rs 296-320.
FlatMesh(flat_surface, checks) ==
    LET output == tessellate_path(flat_surface.boundary.path.points, EmptyMesh)
    IN  Returned([output EXCEPT !.vertices =
                     [k \in 1..Len(output.vertices) |->
                         [output.vertices[k] EXCEPT !.v[3] = flat_surface.boundary.z]]])

\* The roof with the spine's boundary points as its base vertices.
RoofMeshOverBoundary(roof_surface, checks) ==
    LET center_path  == roof_surface.spine.center.path
        ridge_points ==
            << One(along(center_path, roof_surface.gable_depth_back)) >>
            \o RDropLast(RDropFirst(center_path.points))
            \o << One(along(center_path,
                            length(center_path) - roof_surface.gable_depth_front)) >>
        left_points  == roof_surface.spine.left.path.points
        right_points == roof_surface.spine.right.path.points
        boundary     == roof_surface.spine.boundary.path.points
        z        == roof_surface.spine.center.z
        vertices == ToVertices(boundary, z)
                        \o ToVertices(ridge_points, z + roof_surface.height)
        first    == strip_indices(0, RLen(left_points), RLen(boundary),
                                  RLen(ridge_points), FALSE, checks)
        second   == strip_indices(RLen(left_points), RLen(right_points), RLen(boundary),
                                  RLen(ridge_points), FALSE, checks)
    IN  IF first.panic \/ second.panic THEN Panicked
        ELSE Returned(MeshNew(vertices, first.val \o second.val))

\* Surface::Roof, sculpt.rs 321-343.
RoofMesh(roof_surface, checks) ==
    LET center_path  == roof_surface.spine.center.path
        ridge_points ==
            << One(along(center_path, roof_surface.gable_depth_back)) >>
            \o RDropLast(RDropFirst(center_path.points))
            \o << One(along(center_path,
                            length(center_path) - roof_surface.gable_depth_front)) >>
        left_points  == roof_surface.spine.left.path.points
        right_points == roof_surface.spine.right.path.points
        z        == roof_surface.spine.center.z
        vertices == ToVertices(left_points, z)
                        \o ToVertices(RReverse(right_points), z)
                        \o ToVertices(ridge_points, z + roof_surface.height)
        first    == strip_indices(0, RLen(left_points),
                                  RLen(left_points) + RLen(right_points),
                                  RLen(ridge_points), FALSE, checks)
        second   == strip_indices(RLen(left_points), RLen(right_points),
                                  RLen(left_points) + RLen(right_points),
                                  RLen(ridge_points), FALSE, checks)
    IN  IF first.panic \/ second.panic THEN Panicked
        ELSE Returned(MeshNew(vertices, first.val \o second.val))

\* The gable with its two ridge ends left at the base elevation.
GableMeshFlat(gable_surface, checks) ==
    LET center_path  == gable_surface.spine.center.path
        center_back  == along(center_path, gable_surface.gable_depth_back)
        center_front == along(center_path,
                              length(center_path) - gable_surface.gable_depth_front)
        left_points  == gable_surface.spine.left.path.points
        right_points == gable_surface.spine.right.path.points
        low_z  == gable_surface.spine.center.z
        vertices ==
            << One(to_vertex(RAt(left_points, 0), low_z)),
               One(to_vertex(RAt(right_points, RLen(right_points) - 1), low_z)),
               One(to_vertex(center_back, low_z)),
               One(to_vertex(RAt(left_points, RLen(left_points) - 1), low_z)),
               One(to_vertex(RAt(right_points, 0), low_z)),
               One(to_vertex(center_front, low_z)) >>
    IN  Returned(MeshNew(vertices, <<0, 1, 2, 3, 4, 5>>))

\* Surface::Gable, sculpt.rs 344-361.
GableMesh(gable_surface, checks) ==
    LET center_path  == gable_surface.spine.center.path
        center_back  == along(center_path, gable_surface.gable_depth_back)
        center_front == along(center_path,
                              length(center_path) - gable_surface.gable_depth_front)
        left_points  == gable_surface.spine.left.path.points
        right_points == gable_surface.spine.right.path.points
        low_z  == gable_surface.spine.center.z
        high_z == low_z + gable_surface.height
        vertices ==
            << One(to_vertex(RAt(left_points, 0), low_z)),
               One(to_vertex(RAt(right_points, RLen(right_points) - 1), low_z)),
               One(to_vertex(center_back, high_z)),
               One(to_vertex(RAt(left_points, RLen(left_points) - 1), low_z)),
               One(to_vertex(RAt(right_points, 0), low_z)),
               One(to_vertex(center_front, high_z)) >>
    IN  Returned(MeshNew(vertices, <<0, 1, 2, 3, 4, 5>>))

\* The match of to_mesh, sculpt.rs 260-362: the mesh added for one surface.
SurfaceMesh(surface, checks) ==
    CASE surface.kind = "Spanned" -> SpannedMesh(surface, checks)
      [] surface.kind = "Flat"    -> FlatMesh(surface, checks)
      [] surface.kind = "Roof"    -> RoofMesh(surface, checks)
      [] surface.kind = "Gable"   -> GableMesh(surface, checks)

\* The loop of to_mesh, sculpt.rs 259-363: mesh += the mesh of each surface.
RECURSIVE ToMeshFrom(_, _, _)
ToMeshFrom(mesh, surfaces, checks) ==
    IF surfaces = <<>> THEN Returned(mesh)
    ELSE LET part == SurfaceMesh(Head(surfaces), checks)
         IN  IF part.panic THEN Panicked
             ELSE LET step == MeshAddAssign(mesh, part.val, checks)
                  IN  IF step.panic THEN Panicked
                      ELSE ToMeshFrom(step.val, Tail(surfaces), checks)

\* Sculpture::new, push and to_mesh, sculpt.rs 248-366.
Sculpture_new(surfaces) == surfaces

\* push that puts the surface in front of the list.
SculpturePushFront(self, surface) == << surface >> \o self

Sculpture_push(self, surface) == Append(self, surface)

Sculpture_to_mesh(self, checks) == ToMeshFrom(EmptyMesh, self, checks)

(***************************************************************************)
(* MeshQueue and MeshGrouper, mesh_grouper.rs.  A queue member is          *)
(* << key, mesh >>.  Group indices count from 0 as in the code; group i is *)
(* groups[i + 1].  A panic is recorded by its message, "" meaning none.    *)
(***************************************************************************)
TooBig == "New meshes too big for one queue"

NoMeshesLeft == "Should still have meshes left"

KeyMissing == "Should contain key to be removed"

NotAMember == "key not found in group_membership"

NotEmptied == "assertion failed: to_push.0.is_empty()"

Overflowed == "arithmetic overflow"

\* MeshQueue::new, mesh_grouper.rs 13-20.
MeshQueue_new(max_vertices) ==
    [meshes |-> <<>>, total_vertices |-> 0, max_vertices |-> max_vertices,
     dirty |-> FALSE]

\* The while loop of MeshQueue::push, mesh_grouper.rs 34-42.
RECURSIVE DropUntilFits(_, _, _, _)
DropUntilFits(self, total_new_vertices, dropped, total_dropped_vertices) ==
    IF self.total_vertices + total_new_vertices > self.max_vertices
    THEN IF self.meshes = <<>>
         THEN [panic |-> NoMeshesLeft, queue |-> self, dropped |-> dropped,
               total_dropped_vertices |-> total_dropped_vertices]
         ELSE LET next_member_to_drop == Head(self.meshes)
                  n == RLen(next_member_to_drop[2].vertices)
              IN  IF self.total_vertices < n
                  THEN [panic |-> Overflowed, queue |-> self, dropped |-> dropped,
                        total_dropped_vertices |-> total_dropped_vertices]
                  ELSE DropUntilFits(
                           [self EXCEPT !.meshes = Tail(@), !.total_vertices = @ - n],
                           total_new_vertices,
                           Append(dropped, next_member_to_drop),
                           total_dropped_vertices + n)
    ELSE [panic |-> "", queue |-> self, dropped |-> dropped,
          total_dropped_vertices |-> total_dropped_vertices]

\* MeshQueue::push that drops from the back of the queue.
MeshQueuePushDropNewest(self, new_members, total_new_vertices) ==
    LET turned == DropUntilFits(
                      [self EXCEPT !.meshes = [p \in 1..Len(@) |-> @[Len(@) + 1 - p]]],
                      total_new_vertices, <<>>, 0)
        kept   == turned.queue.meshes
    IN  [turned EXCEPT
           !.queue = [turned.queue EXCEPT
                        !.meshes = [p \in 1..Len(kept) |-> kept[Len(kept) + 1 - p]]
                                       \o new_members,
                        !.total_vertices = @ + total_new_vertices,
                        !.dirty = TRUE]]

\* MeshQueue::push without the loop that drops members from the front.
MeshQueuePushNoEviction(self, new_members, total_new_vertices) ==
    [panic |-> "", dropped |-> <<>>, total_dropped_vertices |-> 0,
     queue |-> [self EXCEPT !.meshes = @ \o new_members,
                            !.total_vertices = @ + total_new_vertices,
                            !.dirty = TRUE]]

\* MeshQueue::push, mesh_grouper.rs 22-49.
MeshQueue_push(self, new_members, total_new_vertices) ==
    IF total_new_vertices > self.max_vertices
    THEN [panic |-> TooBig, queue |-> self, dropped |-> <<>>,
          total_dropped_vertices |-> 0]
    ELSE LET made == DropUntilFits(self, total_new_vertices, <<>>, 0)
         IN  IF made.panic # "" THEN made
             ELSE [made EXCEPT
                     !.queue = [made.queue EXCEPT
                                  !.meshes = @ \o new_members,
                                  !.total_vertices = @ + total_new_vertices,
                                  !.dirty = TRUE]]

\* .position(|(k, _)| k == key): from 0, or -1 for None
PositionOf(meshes, key) ==
    IF \E p \in 1..Len(meshes) : meshes[p][1] = key
    THEN (CHOOSE p \in 1..Len(meshes) :
              /\ meshes[p][1] = key
              /\ \A q \in 1..(p - 1) : meshes[q][1] # key) - 1
    ELSE -1

\* MeshQueue::remove, mesh_grouper.rs 51-60.
MeshQueue_remove(self, key) ==
    LET index == PositionOf(self.meshes, key)
    IN  IF index < 0 THEN [panic |-> KeyMissing, queue |-> self]
        ELSE LET old_mesh == self.meshes[index + 1][2]
                 n == RLen(old_mesh.vertices)
             IN  IF self.total_vertices < n THEN [panic |-> Overflowed, queue |-> self]
                 ELSE [panic |-> "",
                       queue |-> [self EXCEPT
                                    !.meshes = SubSeq(@, 1, index)
                                                 \o SubSeq(@, index + 2, Len(@)),
                                    !.total_vertices = @ - n,
                                    !.dirty = TRUE]]

\* MeshQueue::get_mesh_if_changed, mesh_grouper.rs 62-69: the summed mesh, or None.
get_mesh_if_changed(self, checks) ==
    IF self.dirty
    THEN Some(MeshSumRef([p \in 1..Len(self.meshes) |-> self.meshes[p][2]], checks))
    ELSE None

\* MeshGrouper::new, mesh_grouper.rs 84-90.
MeshGrouper_new(max_vertices_per_group) ==
    [groups |-> <<>>, group_membership |-> <<>>,
     max_vertices_per_group |-> max_vertices_per_group, panic |-> ""]

\* HashMap::insert
MapInsert(map, key, value) ==
    [k \in DOMAIN map \cup {key} |-> IF k = key THEN value ELSE map[k]]

\* The insertion that records only the first member of a batch.
InsertHeadOnly(map, members, value) ==
    IF members = <<>> THEN map ELSE MapInsert(map, Head(members)[1], value)

RECURSIVE InsertAll(_, _, _)
InsertAll(map, members, value) ==
    IF members = <<>> THEN map
    ELSE InsertAll(MapInsert(map, Head(members)[1], value), Tail(members), value)

\* The first loop of update, mesh_grouper.rs 97-100.
RECURSIVE RemoveKeys(_, _)
RemoveKeys(self, to_remove) ==
    IF to_remove = <<>> \/ self.panic # "" THEN self
    ELSE LET key_to_remove == Head(to_remove)
         IN  IF key_to_remove \notin DOMAIN self.group_membership
             THEN [self EXCEPT !.panic = NotAMember]
             ELSE LET group_idx == self.group_membership[key_to_remove]
                      removed   == MeshQueue_remove(self.groups[group_idx + 1],
                                                    key_to_remove)
                  IN  IF removed.panic # ""
                      THEN [self EXCEPT !.panic = removed.panic]
                      ELSE RemoveKeys([self EXCEPT
                                         !.groups[group_idx + 1] = removed.queue],
                                      Tail(to_remove))

\* The while loop of update for one new member, mesh_grouper.rs 107-129.
RECURSIVE PushCascade(_, _, _, _)
PushCascade(self, current_group_idx, members, total) ==
    IF members = <<>> THEN self
    ELSE LET marked == [self EXCEPT !.group_membership =
                           InsertAll(@, members, current_group_idx)]
         IN  IF current_group_idx < Len(marked.groups)
             THEN LET pushed == MeshQueue_push(marked.groups[current_group_idx + 1],
                                               members, total)
                  IN  IF pushed.panic # ""
                      THEN [marked EXCEPT !.panic = pushed.panic]
                      ELSE PushCascade(
                               [marked EXCEPT
                                  !.groups[current_group_idx + 1] = pushed.queue],
                               current_group_idx + 1, pushed.dropped,
                               pushed.total_dropped_vertices)
             ELSE LET pushed == MeshQueue_push(
                                    MeshQueue_new(marked.max_vertices_per_group),
                                    members, total)
                  IN  IF pushed.panic # ""
                      THEN [marked EXCEPT !.panic = pushed.panic]
                      ELSE IF pushed.dropped # <<>>
                      THEN [marked EXCEPT !.groups = Append(@, pushed.queue),
                                          !.panic = NotEmptied]
                      ELSE [marked EXCEPT !.groups = Append(@, pushed.queue)]

\* The second loop of update, mesh_grouper.rs 102-130.
RECURSIVE AddMembers(_, _)
AddMembers(self, to_add) ==
    IF to_add = <<>> \/ self.panic # "" THEN self
    ELSE LET new_member == Head(to_add)
         IN  AddMembers(PushCascade(self, 0, << new_member >>,
                                    RLen(new_member[2].vertices)),
                        Tail(to_add))

\* The end of update, mesh_grouper.rs 132-141: a GroupChange for every dirty
\* group, its dirty flag cleared.
GroupChanges(self, checks) ==
    LET dirty == { i \in 0..(Len(self.groups) - 1) : self.groups[i + 1].dirty }
        RECURSIVE Collect(_)
        Collect(i) ==
            IF i >= Len(self.groups) THEN <<>>
            ELSE (IF i \in dirty
                  THEN << [group_id |-> i,
                           new_group_mesh |->
                               get_mesh_if_changed(self.groups[i + 1], checks).val] >>
                  ELSE <<>>) \o Collect(i + 1)
    IN  Collect(0)

\* MeshGrouper::update, mesh_grouper.rs 92-142: the grouper after the call and
\* what the call returns.
update(self, to_remove, to_add, checks) ==
    LET changed == AddMembers(RemoveKeys(self, to_remove), to_add)
        changes == GroupChanges(changed, checks)
    IN  IF changed.panic # "" THEN [grouper |-> changed, out |-> Panicked]
        ELSE IF \E c \in 1..Len(changes) : changes[c].new_group_mesh.panic
        THEN [grouper |-> [changed EXCEPT !.panic = Overflowed], out |-> Panicked]
        ELSE [grouper |-> [changed EXCEPT !.groups =
                              [i \in 1..Len(@) |-> [@[i] EXCEPT !.dirty = FALSE]]],
              out |-> Returned([c \in 1..Len(changes) |->
                          [changes[c] EXCEPT !.new_group_mesh = @.val]])]

(***************************************************************************)
(* Specification of strip_indices as a pure function: the initial state    *)
(* holds the arguments, two index ranges laid out in a u16-addressable     *)
(* vertex buffer (the left range before the right one or after it, at the  *)
(* bottom of the buffer, one vertex in, or ending at the last addressable  *)
(* vertex), and the one step is the call.                                  *)
(***************************************************************************)
NoStripCall == [left_start_i |-> 0, left_len |-> 0, right_start_i |-> 0,
                right_len |-> 0, reverse_right |-> FALSE]

NoMeshCall == [op |-> "none", a |-> EmptyMesh, b |-> EmptyMesh]

NoSpineCall == [center |-> SculptLine_new(LinePath(<<>>), 0), width |-> 0,
                degenerate |-> {}]

NoOp == [op |-> "none", before |-> <<>>, pushed |-> <<>>]

\* The parts of the library a specification does not drive.
StripIdle == strip_in = NoStripCall /\ strip_out = Pending

MeshIdle == mesh_call = NoMeshCall /\ mesh_out = Pending

SpineIdle == spine_call = NoSpineCall /\ spine_out = Pending

SculptIdle ==
    /\ sculpture = <<>>
    /\ last_op = NoOp
    /\ to_mesh_out = Pending
    /\ to_mesh_prev = Pending

NoUpdateCall == [to_remove |-> <<>>, to_add |-> <<>>]

GrouperIdle ==
    /\ grouper = MeshGrouper_new(0)
    /\ update_call = NoUpdateCall
    /\ update_out = Pending

stripVars == <<strip_in, strip_out>>

grouperVars == <<grouper, update_call, update_out>>

meshVars == <<mesh_call, mesh_out>>

spineVars == <<spine_call, spine_out>>

sculptVars == <<sculpture, last_op, to_mesh_out, to_mesh_prev>>

StripBases(total) == {0, 1, U16 - total}

StripInputs ==
    UNION { { [left_start_i  |-> IF leftFirst THEN base ELSE base + rl,
               left_len      |-> ll,
               right_start_i |-> IF leftFirst THEN base + ll ELSE base,
               right_len     |-> rl,
               reverse_right |-> rev] :
              base \in StripBases(ll + rl), leftFirst \in BOOLEAN, rev \in BOOLEAN } :
            ll \in 1..MaxLen, rl \in 1..MaxLen }

InitStrip ==
    /\ overflow_checks \in BOOLEAN
    /\ strip_in \in StripInputs
    /\ strip_out = Pending
    /\ MeshIdle
    /\ SpineIdle
    /\ SculptIdle
    /\ GrouperIdle

CallStrip ==
    /\ ~strip_out.called
    /\ strip_out' = strip_indices(strip_in.left_start_i, strip_in.left_len,
                                  strip_in.right_start_i, strip_in.right_len,
                                  strip_in.reverse_right, overflow_checks)
    /\ UNCHANGED <<overflow_checks, strip_in, meshVars, spineVars, sculptVars, grouperVars>>

NextStrip == CallStrip

SpecStrip == InitStrip /\ [][NextStrip]_vars

(***************************************************************************)
(* Properties of strip_indices.                                            *)
(***************************************************************************)
StripEqualLengths ==
    /\ strip_out.called
    /\ strip_in.left_len >= 1
    /\ strip_in.left_len = strip_in.right_len

\* The zig-zag pairing of two ranges of n vertices: step i is the triangles
\* (ls+i, rs+i, ls+i+1) and (ls+i+1, rs+i, rs+i+1).
ZigZag(ls, rs, n) ==
    Flatten([k \in 1..(n - 1) |->
        << ls + k - 1, rs + k - 1, ls + k, ls + k, rs + k - 1, rs + k >>])

\* The same pairing with every right index r mirrored to rs + (n-1) - (r - rs).
MirroredZigZag(ls, rs, n) ==
    Flatten([k \in 1..(n - 1) |->
        << ls + k - 1, rs + n - k, ls + k, ls + k, rs + n - k, rs + n - k - 1 >>])

\* C4: a forward call on two ranges of equal length n >= 1 that returns, returns
\* exactly 6*(n-1) indices, step i being (ls+i, rs+i, ls+i+1), (ls+i+1, rs+i,
\* rs+i+1); strip_indices(0,4,4,4,false) is the canonical zig-zag.
C4_ForwardStripMapping ==
    (StripEqualLengths /\ ~strip_in.reverse_right /\ ~strip_out.panic) =>
        /\ Len(strip_out.val) = 6 * (strip_in.left_len - 1)
        /\ strip_out.val =
               ZigZag(strip_in.left_start_i, strip_in.right_start_i, strip_in.left_len)
        /\ (strip_in.left_start_i = 0 /\ strip_in.right_start_i = 4
                /\ strip_in.left_len = 4) =>
               strip_out.val = <<0,4,1, 1,4,5, 1,5,2, 2,5,6, 2,6,3, 3,6,7>>

C4_Witness ==
    /\ strip_in = [left_start_i |-> 0, left_len |-> 4, right_start_i |-> 4,
                   right_len |-> 4, reverse_right |-> FALSE]
    /\ strip_out.called
    /\ ~strip_out.panic
    /\ Len(strip_out.val) = 18

\* C5: a reversed call on two ranges of equal length returns the forward output
\* with every right index mirrored, so step i pairs left ls+i with right
\* rs+n-1-i and then rs+n-2-i.
C5_ReversedStripMapping ==
    (StripEqualLengths /\ strip_in.reverse_right) =>
        /\ ~strip_out.panic
        /\ strip_out.val =
               MirroredZigZag(strip_in.left_start_i, strip_in.right_start_i,
                              strip_in.left_len)

\* C6: for every left_len >= 1 and right_len >= 1, either direction, the call
\* completes without an arithmetic overflow, every right-side index (positions
\* 1, 4, 5 of a step, counted from 0) lies in [right_start, right_start +
\* right_len - 1] and every left-side index in [left_start, left_start +
\* left_len - 1].
C6_StripIndicesClamped ==
    (strip_out.called /\ strip_in.left_len >= 1 /\ strip_in.right_len >= 1) =>
        /\ ~strip_out.panic
        /\ \A p \in 1..Len(strip_out.val) :
              IF (p - 1) % 6 \in {1, 4, 5}
              THEN /\ strip_out.val[p] >= strip_in.right_start_i
                   /\ strip_out.val[p] <= strip_in.right_start_i + strip_in.right_len - 1
              ELSE /\ strip_out.val[p] >= strip_in.left_start_i
                   /\ strip_out.val[p] <= strip_in.left_start_i + strip_in.left_len - 1

(***************************************************************************)
(* Specification of the Mesh concatenation operators as pure functions:    *)
(* each step applies one of them to two meshes a and b.  The operands are  *)
(* meshes whose indices refer to their own vertices, with few vertices or  *)
(* with about 2^16 of them.                                                *)
(***************************************************************************)
MaxVerts == 3

VertexCounts == {0, 1, MaxVerts, U16 - MaxVerts, U16 - 1, U16}

IndexLists(nv) ==
    IF nv = 0 THEN { <<>> }
    ELSE { <<>>, <<0, 0, nv - 1>>, <<nv - 1, 0, nv - 1>> }

MeshInputs ==
    UNION { { MeshNew(Run(v0, nv), idx) : idx \in IndexLists(nv) } :
            v0 \in { <<0, 0, 0>>, <<7, 1, 5>> }, nv \in VertexCounts }

InitMesh ==
    /\ overflow_checks \in BOOLEAN
    /\ \E a \in MeshInputs, b \in MeshInputs :
           mesh_call = [op |-> "none", a |-> a, b |-> b]
    /\ mesh_out = Pending
    /\ StripIdle
    /\ SpineIdle
    /\ SculptIdle
    /\ GrouperIdle

MeshOthers == <<overflow_checks, stripVars, spineVars, sculptVars, grouperVars>>

\* a + b
CallAdd ==
    /\ ~mesh_out.called
    /\ mesh_call' = [mesh_call EXCEPT !.op = "add"]
    /\ mesh_out' = MeshAdd(mesh_call.a, mesh_call.b, overflow_checks)
    /\ UNCHANGED MeshOthers

\* a += b
CallAddAssign ==
    /\ ~mesh_out.called
    /\ mesh_call' = [mesh_call EXCEPT !.op = "add_assign"]
    /\ mesh_out' = MeshAddAssign(mesh_call.a, mesh_call.b, overflow_checks)
    /\ UNCHANGED MeshOthers

\* a += &b
CallAddAssignRef ==
    /\ ~mesh_out.called
    /\ mesh_call' = [mesh_call EXCEPT !.op = "add_assign_ref"]
    /\ mesh_out' = MeshAddAssignRef(mesh_call.a, mesh_call.b, overflow_checks)
    /\ UNCHANGED MeshOthers

\* vec![a, b].into_iter().sum()
CallSum ==
    /\ ~mesh_out.called
    /\ mesh_call' = [mesh_call EXCEPT !.op = "sum"]
    /\ mesh_out' = MeshSum(<<mesh_call.a, mesh_call.b>>, overflow_checks)
    /\ UNCHANGED MeshOthers

\* [a, b].iter().sum()
CallSumRef ==
    /\ ~mesh_out.called
    /\ mesh_call' = [mesh_call EXCEPT !.op = "sum_ref"]
    /\ mesh_out' = MeshSumRef(<<mesh_call.a, mesh_call.b>>, overflow_checks)
    /\ UNCHANGED MeshOthers

NextMesh ==
    \/ CallAdd
    \/ CallAddAssign
    \/ CallAddAssignRef
    \/ CallSum
    \/ CallSumRef

SpecMesh == InitMesh /\ [][NextMesh]_vars

(***************************************************************************)
(* Properties of Mesh concatenation.                                       *)
(***************************************************************************)
MeshCalled == mesh_out.called

IndicesInRange(mesh) ==
    \A p \in 1..Len(mesh.indices) : mesh.indices[p] < RLen(mesh.vertices)

\* C3: a + b, a += b, a += &b and Mesh::sum produce the vertices of a followed by
\* those of b, and the indices of a followed by each index of b increased by
\* a's vertex count; so when the indices of a and of b refer to their own
\* vertices, every index of the result refers to the same vertex as before.
C3_ConcatenationIndexSafe ==
    MeshCalled =>
        LET a == mesh_call.a
            b == mesh_call.b
            na == Len(a.indices)
        IN  /\ ~mesh_out.panic
            /\ mesh_out.val.vertices = a.vertices \o b.vertices
            /\ mesh_out.val.indices =
                   a.indices \o [p \in 1..Len(b.indices) |->
                                    b.indices[p] + RLen(a.vertices)]
            /\ (IndicesInRange(a) /\ IndicesInRange(b)) =>
                   /\ IndicesInRange(mesh_out.val)
                   /\ \A p \in 1..na :
                         RAt(mesh_out.val.vertices, mesh_out.val.indices[p])
                             = RAt(a.vertices, a.indices[p])
                   /\ \A p \in 1..Len(b.indices) :
                         RAt(mesh_out.val.vertices, mesh_out.val.indices[na + p])
                             = RAt(b.vertices, b.indices[p])

(***************************************************************************)
(* Specification of SkeletonSpine::new: the initial state holds a center   *)
(* line, a width and the steps at which the path algebra finds the         *)
(* geometry degenerate; the one step is the call.                          *)
(***************************************************************************)
MaxPts == 3

MaxHalfWidth == 2

\* A straight line of n points one unit apart, from (x0, y) towards +x.
Line(x0, y, n, z) == SculptLine_new(LinePath(Run(<< x0, y >>, n)), z)

Reversed(line) == SculptLine_new(reverse(line.path), line.z)

Centers ==
    LET forward == { Line(0, 0, n, z) : n \in 2..MaxPts, z \in {0, 2} }
    IN  forward \cup { Reversed(c) : c \in forward }

Widths == { 2 * h : h \in 0..MaxHalfWidth }

InitSpine ==
    /\ overflow_checks \in BOOLEAN
    /\ \E center \in Centers, width \in Widths, degenerate \in SUBSET SpineSteps :
           spine_call = [center |-> center, width |-> width, degenerate |-> degenerate]
    /\ spine_out = Pending
    /\ StripIdle
    /\ MeshIdle
    /\ SculptIdle
    /\ GrouperIdle

CallSpineNew ==
    /\ ~spine_out.called
    /\ spine_out' = Returned(SkeletonSpine_new(spine_call.center, spine_call.width,
                                               spine_call.degenerate))
    /\ UNCHANGED <<overflow_checks, spine_call, stripVars, meshVars, sculptVars, grouperVars>>

NextSpine == CallSpineNew

SpecSpine == InitSpine /\ [][NextSpine]_vars

(***************************************************************************)
(* Properties of SkeletonSpine::new.                                       *)
(***************************************************************************)
\* C9: SkeletonSpine::new never panics; it returns None whenever a step yields
\* no result, in particular when width = 0; when every step succeeds it returns
\* a spine whose boundary is left, then front, then the reversed right offset,
\* then back, at the center's elevation.
C9_NoResultPropagates ==
    spine_out.called =>
        LET center == spine_call.center
            half   == spine_call.width \div 2
            result == spine_out.val
        IN  /\ ~spine_out.panic
            /\ spine_call.degenerate # {} => result = None
            /\ spine_call.width = 0 => result = None
            /\ (spine_call.degenerate = {} /\ spine_call.width # 0) =>
                 /\ result.some
                 /\ LET spine == result.val
                        left  == Expand(spine.left.path.points)
                        right == Expand(spine.right.path.points)
                        n     == Len(left)
                    IN  /\ n = RLen(center.path.points)
                        /\ Len(right) = n
                        /\ \A k \in 1..n :
                             /\ left[k][1] = RAt(center.path.points, k - 1)[1]
                             /\ right[k][1] = RAt(center.path.points, n - k)[1]
                             /\ left[k][2] - right[k][2] \in {2 * half, -2 * half}
                        /\ Expand(spine.front.path.points) = << left[n], right[1] >>
                        /\ Expand(spine.back.path.points) = << right[n], left[1] >>
                        /\ Expand(spine.boundary.path.points)
                               = left \o right \o << left[1] >>
                        /\ spine.boundary.z = center.z
                        /\ spine.center = center

C9_Witness ==
    /\ spine_out.called
    /\ spine_call.degenerate = {}
    /\ spine_call.width = 2
    /\ spine_out.val.some
    /\ RLen(spine_out.val.val.boundary.path.points) = 2 * MaxPts + 1

(***************************************************************************)
(* Specification of a Sculpture: built by Sculpture::new from a vector of  *)
(* at most one surface, extended by push, triangulated by to_mesh.  The    *)
(* surfaces are taken from a catalogue: ribbons between two lines of few   *)
(* points or of nearly 2^16, flat fills of a spine's boundary or of a      *)
(* two-point line, and the roof and gable of a spine.                      *)
(***************************************************************************)
MaxSurfaces == 2

PointCounts == {2, MaxPts}

Spines ==
    { SkeletonSpine_new(Line(0, 0, n, 0), 2, {}).val : n \in PointCounts }

LongLine == Line(0, 4, U16 - 2, 1)

SpannedSurfaces ==
    { SpannedSurface_new(Line(0, 0, l, 0), right) :
        l \in PointCounts,
        right \in { Line(0, 1, r, 1) : r \in PointCounts } \cup { LongLine } }

FlatSurfaces ==
    { to_flat_surface(spine) : spine \in Spines } \cup { FlatSurface(Line(0, 0, 2, 0)) }

RoofSurfaces == { RoofSurface(spine, 3, 1, 0) : spine \in Spines }

GableSurfaces == { GableSurface(spine, 3, 1, 0) : spine \in Spines }

Surfaces == SpannedSurfaces \cup FlatSurfaces \cup RoofSurfaces \cup GableSurfaces

InitSculpt ==
    /\ overflow_checks \in BOOLEAN
    /\ \E surfaces \in { <<>> } \cup { << s >> : s \in Surfaces } :
           /\ sculpture = Sculpture_new(surfaces)
           /\ last_op = [op |-> "new", before |-> <<>>, pushed |-> surfaces]
    /\ to_mesh_out = Pending
    /\ to_mesh_prev = Pending
    /\ StripIdle
    /\ MeshIdle
    /\ SpineIdle
    /\ GrouperIdle

SculptOthers == <<overflow_checks, stripVars, meshVars, spineVars, grouperVars>>

Push ==
    /\ Len(sculpture) < MaxSurfaces
    /\ \E surface \in Surfaces :
           /\ sculpture' = Sculpture_push(sculpture, surface)
           /\ last_op' = [op |-> "push", before |-> sculpture, pushed |-> << surface >>]
    /\ to_mesh_out' = Pending
    /\ to_mesh_prev' = Pending
    /\ UNCHANGED SculptOthers

\* to_mesh takes &self: the surfaces stay as they are.
ToMesh ==
    /\ to_mesh_out' = Sculpture_to_mesh(sculpture, overflow_checks)
    /\ to_mesh_prev' = to_mesh_out
    /\ last_op' = [op |-> "to_mesh", before |-> sculpture, pushed |-> <<>>]
    /\ UNCHANGED <<sculpture, SculptOthers>>

NextSculpt ==
    \/ Push
    \/ ToMesh

SpecSculpt == InitSculpt /\ [][NextSculpt]_vars

(***************************************************************************)
(* Properties of Sculpture::to_mesh.                                       *)
(***************************************************************************)
ToMeshReturned == to_mesh_out.called /\ ~to_mesh_out.panic

\* C1: every index of a mesh that to_mesh returns is below the mesh's vertex
\* count, and the number of indices is a multiple of 3.
C1_IndexSafety ==
    ToMeshReturned =>
        /\ \A p \in 1..Len(to_mesh_out.val.indices) :
              /\ to_mesh_out.val.indices[p] >= 0
              /\ to_mesh_out.val.indices[p] < RLen(to_mesh_out.val.vertices)
        /\ Len(to_mesh_out.val.indices) % 3 = 0

C1_Witness ==
    /\ ToMeshReturned
    /\ Len(sculpture) >= 2
    /\ RLen(to_mesh_out.val.vertices) > U16
    /\ Len(to_mesh_out.val.indices) > 6

RECURSIVE SumOver(_, _)
SumOver(Count(_), surfaces) ==
    IF surfaces = <<>> THEN 0
    ELSE Count(Head(surfaces)) + SumOver(Count, Tail(surfaces))

\* The ridge of a roof: the two sampled ends and the center's interior points.
RidgeCount(surface) == 2 + (RLen(surface.spine.center.path.points) - 2)

\* The per-surface vertex count as the statement gives it.
StatedCount(surface) ==
    CASE surface.kind = "Spanned" ->
             RLen(surface.left_line.path.points) + RLen(surface.right_line.path.points)
      [] surface.kind = "Gable" -> 6
      [] surface.kind = "Flat" ->
             RLen(tessellate_path(surface.boundary.path.points, EmptyMesh).vertices)
      [] surface.kind = "Roof" ->
             RLen(surface.spine.boundary.path.points) + RidgeCount(surface)

\* The same, a roof counted by its left and right lines instead of its boundary.
LeftRightCount(surface) ==
    IF surface.kind = "Roof"
    THEN RLen(surface.spine.left.path.points) + RLen(surface.spine.right.path.points)
             + RidgeCount(surface)
    ELSE StatedCount(surface)

C7_GableFixedShape ==
    (to_mesh_out.called /\ Len(sculpture) = 1 /\ sculpture[1].kind = "Gable") =>
        LET gable   == sculpture[1]
            spine   == gable.spine
            base    == spine.center.z
            corners == { p : p \in { RFirst(spine.left.path.points),
                                     RLast(spine.left.path.points),
                                     RFirst(spine.right.path.points),
                                     RLast(spine.right.path.points) } }
            ends    == { along(spine.center.path, gable.gable_depth_back),
                         along(spine.center.path, length(spine.center.path)
                                                      - gable.gable_depth_front) }
            v(i)    == RAt(to_mesh_out.val.vertices, i)
        IN  /\ ~to_mesh_out.panic
            /\ RLen(to_mesh_out.val.vertices) = 6
            /\ to_mesh_out.val.indices = <<0, 1, 2, 3, 4, 5>>
            /\ \A t \in {0, 1} :
                 /\ \A c \in {0, 1} :
                      /\ v(3 * t + c)[3] = base
                      /\ << v(3 * t + c)[1], v(3 * t + c)[2] >> \in corners
                 /\ v(3 * t)  # v(3 * t + 1)
                 /\ v(3 * t + 2)[3] = base + gable.height
                 /\ << v(3 * t + 2)[1], v(3 * t + 2)[2] >> \in ends

C7_Witness ==
    /\ ToMeshReturned
    /\ Len(sculpture) = 1
    /\ sculpture[1].kind = "Gable"
    /\ RLen(sculpture[1].spine.center.path.points) = MaxPts

\* The concatenation, in order, of to_mesh of the singleton sculptures.
SinglesConcatenated(surfaces, checks) ==
    LET single == [k \in 1..Len(surfaces) |->
                      Sculpture_to_mesh(Sculpture_new(<< surfaces[k] >>), checks)]
    IN  IF \E k \in 1..Len(surfaces) : single[k].panic THEN Panicked
        ELSE MeshSum([k \in 1..Len(surfaces) |-> single[k].val], checks)

\* C8: push appends the surface and keeps the earlier entries; to_mesh leaves the
\* list as it is and returns the concatenation, in insertion order, of to_mesh
\* of the singleton sculptures; a repeated call returns the same mesh.
C8_InsertionOrderComposition ==
    /\ last_op.op = "push" =>
          /\ Len(sculpture) = Len(last_op.before) + 1
          /\ SubSeq(sculpture, 1, Len(last_op.before)) = last_op.before
          /\ sculpture[Len(sculpture)] = last_op.pushed[1]
    /\ last_op.op = "to_mesh" =>
          /\ sculpture = last_op.before
          /\ to_mesh_out = SinglesConcatenated(sculpture, overflow_checks)
          /\ to_mesh_prev.called => to_mesh_out = to_mesh_prev

C8_Witness ==
    /\ last_op.op = "to_mesh"
    /\ to_mesh_prev.called
    /\ ToMeshReturned
    /\ Len(sculpture) >= 2
    /\ sculpture[1].kind # sculpture[2].kind
    /\ Len(to_mesh_out.val.indices) > 6


\* The ridge as stated: the center sampled at gable_depth_back, the center's
\* interior points, the center sampled at length - gable_depth_front.
StatedRidge(surface) ==
    << One(along(surface.spine.center.path, surface.gable_depth_back)) >>
    \o RDropLast(RDropFirst(surface.spine.center.path.points))
    \o << One(along(surface.spine.center.path,
                    length(surface.spine.center.path) - surface.gable_depth_front)) >>

OnlyRoofMeshed ==
    /\ ToMeshReturned
    /\ Len(sculpture) = 1
    /\ sculpture[1].kind = "Roof"

\* C11: the mesh of a Roof surface has the spine's boundary points followed by
\* the ridge points (at z + height) as its vertices, and as its indices two
\* strips against the ridge range, over the left and the right half of the
\* boundary, the first with reverse_right = false, the second with
\* reverse_right = true.
C11_RoofLayout ==
    OnlyRoofMeshed =>
        LET surface  == sculpture[1]
            boundary == surface.spine.boundary.path.points
            ridge    == StatedRidge(surface)
            n_left   == RLen(surface.spine.left.path.points)
            n_right  == RLen(surface.spine.right.path.points)
            n_base   == RLen(to_mesh_out.val.vertices) - RLen(ridge)
            first    == strip_indices(0, n_left, n_base, RLen(ridge), FALSE,
                                      overflow_checks)
            second   == strip_indices(n_left, n_right, n_base, RLen(ridge), TRUE,
                                      overflow_checks)
        IN  /\ Expand(to_mesh_out.val.vertices)
                 = Expand(ToVertices(boundary, surface.spine.center.z))
                     \o Expand(ToVertices(ridge, surface.spine.center.z + surface.height))
            /\ ~first.panic /\ ~second.panic
            /\ to_mesh_out.val.indices = first.val \o second.val

\* Twice the signed area, seen from above, of the triangle at indices
\* 3t+1..3t+3 of a mesh: positive when it winds counter-clockwise.
SignedArea(mesh, t) ==
    LET a == RAt(mesh.vertices, mesh.indices[3 * t + 1])
        b == RAt(mesh.vertices, mesh.indices[3 * t + 2])
        c == RAt(mesh.vertices, mesh.indices[3 * t + 3])
    IN  (b[1] - a[1]) * (c[2] - a[2]) - (b[2] - a[2]) * (c[1] - a[1])

\* All triangles of a roof's mesh wind the same way seen from above.
RoofWindingConsistent ==
    OnlyRoofMeshed =>
        LET mesh == to_mesh_out.val
            ts   == 0..(Len(mesh.indices) \div 3 - 1)
        IN  \/ \A t \in ts : SignedArea(mesh, t) >= 0
            \/ \A t \in ts : SignedArea(mesh, t) <= 0

(***************************************************************************)
(* Specification of the MeshGrouper: MeshGrouper::new, then update calls.  *)
(* The keys of a call's to_remove are held in some group, the keys of its  *)
(* to_add are distinct and not held once to_remove is gone, and no added   *)
(* mesh has more vertices than a group may hold.                           *)
(***************************************************************************)
MaxBudget == 3

MaxKeys == 3

MaxBatch == 1

Keys == 1..MaxKeys

\* The mesh of n vertices added under a key.
KeyedMesh(key, n) ==
    MeshNew(IF n = 0 THEN <<>> ELSE Run(<<key, 0, 0>>, n),
            IF n >= 3 THEN <<0, 1, 2>> ELSE <<>>)

\* The keys and the meshes a queue holds.
KeysOf(queue) == { queue.meshes[p][1] : p \in 1..Len(queue.meshes) }

Held(self) == UNION { KeysOf(self.groups[i]) : i \in 1..Len(self.groups) }

\* Sequences of distinct elements of a set, of at most MaxBatch elements.
Batches(S) ==
    { q \in UNION { [1..n -> S] : n \in 0..MaxBatch } :
          \A a, b \in 1..Len(q) : a # b => q[a] # q[b] }

InitGrouper ==
    /\ overflow_checks \in BOOLEAN
    /\ grouper = MeshGrouper_new(MaxBudget)
    /\ update_call = NoUpdateCall
    /\ update_out = Pending
    /\ StripIdle
    /\ MeshIdle
    /\ SpineIdle
    /\ SculptIdle

Update ==
    /\ grouper.panic = ""
    /\ \E to_remove \in Batches(Held(grouper)) :
       \E added \in Batches(Keys \ (Held(grouper) \ { to_remove[p] : p \in 1..Len(to_remove) })) :
       \E sizes \in [1..Len(added) -> 0..grouper.max_vertices_per_group] :
          LET to_add == [p \in 1..Len(added) |-> << added[p], KeyedMesh(added[p], sizes[p]) >>]
              done   == update(grouper, to_remove, to_add, overflow_checks)
          IN  /\ grouper' = done.grouper
              /\ update_call' = [to_remove |-> to_remove, to_add |-> to_add]
              /\ update_out' = done.out
    /\ UNCHANGED <<overflow_checks, stripVars, meshVars, spineVars, sculptVars>>

NextGrouper == Update

SpecGrouper == InitGrouper /\ [][NextGrouper]_vars

\* The vertices of the meshes a queue holds.
RECURSIVE VerticesHeld(_)
VerticesHeld(meshes) ==
    IF meshes = <<>> THEN 0
    ELSE RLen(Head(meshes)[2].vertices) + VerticesHeld(Tail(meshes))

\* C10: after any sequence of update calls that add meshes of at most
\* max_vertices_per_group vertices under keys not held and remove only held
\* keys, the meshes of every group have together at most
\* max_vertices_per_group vertices, and the group's total_vertices is the sum
\* of the vertex counts of the meshes in its queue.
C10_VertexBudget ==
    grouper.panic = "" =>
        \A i \in 1..Len(grouper.groups) :
            /\ VerticesHeld(grouper.groups[i].meshes) <= grouper.max_vertices_per_group
            /\ grouper.groups[i].total_vertices = VerticesHeld(grouper.groups[i].meshes)

\* An update has returned with two groups holding meshes, the first one full.
C10_Witness ==
    /\ update_out.called /\ ~update_out.panic
    /\ Len(grouper.groups) >= 2
    /\ grouper.groups[1].total_vertices = grouper.max_vertices_per_group
    /\ grouper.groups[1].meshes # <<>>
    /\ grouper.groups[2].total_vertices > 0

\* update never fails on the calls of SpecGrouper.
UpdateNeverPanics == grouper.panic = ""


(***************************************************************************)
(* The eviction cascade as stated, computed on the queues' members alone.  *)
(***************************************************************************)
\* The members of every group's queue, in queue order.
QueuesOf(self) == [i \in 1..Len(self.groups) |-> self.groups[i].meshes]

\* How many members leave the front of a queue for a batch to fit: the least
\* number that makes room.
StatedCut(members, batch, max) ==
    CHOOSE j \in 0..Len(members) :
        /\ VerticesHeld(SubSeq(members, j + 1, Len(members))) + VerticesHeld(batch) <= max
        /\ \A h \in 0..(j - 1) :
              VerticesHeld(SubSeq(members, h + 1, Len(members))) + VerticesHeld(batch) > max

\* A batch enters group i behind the members that stay; the members that leave
\* enter group i + 1, oldest first; past the last group, a new group takes them.
RECURSIVE StatedCascade(_, _, _, _)
StatedCascade(queues, i, batch, max) ==
    IF batch = <<>> THEN queues
    ELSE IF i > Len(queues) THEN Append(queues, batch)
    ELSE LET j == StatedCut(queues[i], batch, max)
         IN  StatedCascade(
                 [queues EXCEPT ![i] = SubSeq(@, j + 1, Len(@)) \o batch],
                 i + 1, SubSeq(queues[i], 1, j), max)

RECURSIVE StatedAdds(_, _, _)
StatedAdds(queues, to_add, max) ==
    IF to_add = <<>> THEN queues
    ELSE StatedAdds(StatedCascade(queues, 1, << Head(to_add) >>, max), Tail(to_add), max)

\* The queues without the removed keys, the other members in their order.
StatedRemoves(queues, to_remove) ==
    LET gone == { to_remove[p] : p \in 1..Len(to_remove) }
        Stays(member) == member[1] \notin gone
    IN  [i \in 1..Len(queues) |-> SelectSeq(queues[i], Stays)]

\* How often a key is held, over all groups.
RECURSIVE TimesHeld(_, _)
TimesHeld(queues, key) ==
    IF queues = <<>> THEN 0
    ELSE Cardinality({ p \in 1..Len(Head(queues)) : Head(queues)[p][1] = key })
             + TimesHeld(Tail(queues), key)

KeysIn(members) == { members[p][1] : p \in 1..Len(members) }

\* One update, as stated.
CascadeStep ==
    /\ grouper'.panic = ""
    /\ update_out'.called /\ ~update_out'.panic
    /\ QueuesOf(grouper') =
           StatedAdds(StatedRemoves(QueuesOf(grouper), update_call'.to_remove),
                      update_call'.to_add, grouper.max_vertices_per_group)
    /\ Held(grouper') =
           (Held(grouper) \ { update_call'.to_remove[p] :
                                 p \in 1..Len(update_call'.to_remove) })
               \cup KeysIn(update_call'.to_add)
    /\ \A key \in Held(grouper') : TimesHeld(QueuesOf(grouper'), key) = 1

\* C12: every update that adds meshes of at most max_vertices_per_group vertices
\* returns without a failed expectation or assertion, and leaves the queues as
\* the cascade gives them: in each group the oldest members leave, as few as
\* make room, the batch enters behind the ones that stay, the ones that left
\* enter the next group in the order they left, a new group is appended past
\* the last one; every key added and not removed is held exactly once.
C12_EvictionCascade == [][CascadeStep]_vars

\* An update has added a mesh that pushed members out of the first group and,
\* through them, out of the second: three groups changed, none by a removal.
C12_Witness ==
    /\ update_out.called /\ ~update_out.panic
    /\ update_call.to_remove = <<>>
    /\ Len(update_call.to_add) = 1
    /\ Len(update_out.val) >= 3
    /\ \A i \in 1..3 : grouper.groups[i].meshes # <<>>


(***************************************************************************)
(* Membership and the reported changes.                                    *)
(***************************************************************************)
\* group_membership leads from every held key to the group that holds it, and
\* removing the key there succeeds.
MembershipConsistent(self) ==
    \A i \in 1..Len(self.groups) :
        \A key \in KeysOf(self.groups[i]) :
            /\ key \in DOMAIN self.group_membership
            /\ self.group_membership[key] = i - 1
            /\ RemoveKeys(self, << key >>).panic = ""

\* The groups a removal takes a member from.
StatedLeft(queues, to_remove) ==
    { i \in 1..Len(queues) :
          \E p \in 1..Len(to_remove) : to_remove[p] \in KeysIn(queues[i]) }

\* The groups a batch or what it pushes out enters, in the stated cascade.
RECURSIVE StatedEntered(_, _, _, _)
StatedEntered(queues, i, batch, max) ==
    IF batch = <<>> THEN {}
    ELSE IF i > Len(queues) THEN {i}
    ELSE LET j == StatedCut(queues[i], batch, max)
         IN  {i} \cup StatedEntered(queues, i + 1, SubSeq(queues[i], 1, j), max)

RECURSIVE StatedEnteredByAll(_, _, _)
StatedEnteredByAll(queues, to_add, max) ==
    IF to_add = <<>> THEN {}
    ELSE StatedEntered(queues, 1, << Head(to_add) >>, max)
             \cup StatedEnteredByAll(StatedCascade(queues, 1, << Head(to_add) >>, max),
                                     Tail(to_add), max)

\* The meshes of a queue joined in queue order: the vertices one after the
\* other, every index raised by the number of vertices before its mesh.
RECURSIVE StatedJoin(_, _)
StatedJoin(joined, members) ==
    IF members = <<>> THEN joined
    ELSE LET mesh == Head(members)[2]
         IN  StatedJoin(
                 [vertices |-> joined.vertices \o mesh.vertices,
                  indices  |-> joined.indices
                                 \o [p \in 1..Len(mesh.indices) |->
                                        mesh.indices[p] + RLen(joined.vertices)]],
                 Tail(members))

\* The group ids of the changes an update returned, in the order returned.
ReportedIds(out) == [c \in 1..Len(out.val) |-> out.val[c].group_id]

\* One update: membership afterwards, and what the update reports.
MembershipStep ==
    LET before  == StatedRemoves(QueuesOf(grouper), update_call'.to_remove)
        changed == StatedLeft(QueuesOf(grouper), update_call'.to_remove)
                       \cup StatedEnteredByAll(before, update_call'.to_add,
                                               grouper.max_vertices_per_group)
        ids     == ReportedIds(update_out')
    IN  /\ MembershipConsistent(grouper')
        /\ update_out'.called /\ ~update_out'.panic
        /\ { ids[c] + 1 : c \in 1..Len(ids) } = changed
        /\ \A c, e \in 1..Len(ids) : c < e => ids[c] < ids[e]
        /\ \A c \in 1..Len(ids) :
              update_out'.val[c].new_group_mesh
                  = StatedJoin(EmptyMesh, grouper'.groups[ids[c] + 1].meshes)

\* C13: after every update, group_membership maps every held key to the index
\* of the group that holds it, also a key that a cascade moved to a later
\* group, so that removing a held key finds it; and the update returns one
\* GroupChange for each group that a member left or entered during the call
\* and for no other, carrying the group's meshes joined in queue order.
C13_MembershipConsistency == [][MembershipStep]_vars

\* An update has removed a key and added one, two groups are reported and a
\* third is not, and a key is held in a later group than the first.
C13_Witness ==
    /\ update_out.called /\ ~update_out.panic
    /\ Len(update_call.to_remove) = 1
    /\ Len(update_call.to_add) = 1
    /\ Len(update_out.val) = 2
    /\ Len(grouper.groups) >= 3
    /\ \E key \in Held(grouper) : grouper.group_membership[key] >= 1

====
